---- MODULE Spec2Model ----
(***************************************************************************)
(* Model of the CONLL-U annotation pipeline (lab_6_pipeline).              *)
(*                                                                         *)
(* Strings are sequences of characters.  SANY reads ASCII only, so the     *)
(* Cyrillic letters of the corpus are written with Latin stand-ins:        *)
(* lowercase "m","i","r",... stand for lowercase Cyrillic letters and      *)
(* "P","M" for uppercase ones.  Tag atoms, tag codes and category names,   *)
(* which the code never looks inside, are single elements of a string.     *)
(***************************************************************************)
EXTENDS Integers, Sequences, FiniteSets, TLC

VARIABLES
    pc,               \* position in MorphologicalAnalysisPipeline._process
    sentences,        \* split_by_sentence(text): the sentences of the text
    result,           \* the analyzer's flat record stream
    number_of_word,   \* cursor into result (0-based, as in the code)
    ind,              \* 1-based index of the current sentence
    words,            \* re.findall(r'\w+', sentence) of the current sentence
    i,                \* number of words of the sentence processed so far
    tokens,           \* tokens of the current sentence
    conllu_sentences, \* the sentences produced so far
    error,            \* "" or the exception that ended _process
    dataset,          \* the directory CorpusManager is built on
    cm_pc,            \* position in CorpusManager.__init__
    cm_error,         \* "" or the condition _validate_dataset raised
    storage,          \* CorpusManager._storage (None before it is set)
    cv_in,            \* the converter variant and the raw tag given to it (a Mystem
                      \* tag string in .tags, an OpenCorpora tag object in .tag)
    cv_out,           \* the outcome of convert_morphological_tags
    rd_sentence,      \* the ConlluSentence being rendered
    rd_out,           \* the outcomes of the renderers and of the parser
    docs,             \* the raw texts of the corpus articles, in storage order
    doc_idx,          \* 1-based index of the article run is working on
    run_pc,           \* position in MorphologicalAnalysisPipeline.run
    written           \* the artifacts run has written, in order

procVars == <<pc, sentences, result, number_of_word, ind, words, i, tokens,
              conllu_sentences, error>>
cmVars == <<dataset, cm_pc, cm_error, storage>>
cvVars == <<cv_in, cv_out>>
rdVars == <<rd_sentence, rd_out>>
runVars == <<docs, doc_idx, run_pc, written>>
vars == <<procVars, cmVars, cvVars, rdVars, runVars>>

(***************************************************************************)
(* Bounds                                                                  *)
(***************************************************************************)
MaxSentences == 2
MaxRecords == 3
MaxTagAtoms == 3
MaxTokens == 3
MaxCalls == 2
MaxDocs == 2

(***************************************************************************)
(* Characters                                                              *)
(***************************************************************************)
UpperLetters == {"P", "M"}
LowerLetters == {"p", "m", "i", "r", "v", "e", "t", "q", "w"}
Letters == UpperLetters \cup LowerLetters
Digits == {"4", "2", "0", "1", "3", "5", "6", "7", "8", "9"}

\* str.isalnum / str.isdigit: every character qualifies and there is at least one
IsAlnum(s) == Len(s) > 0 /\ \A k \in 1..Len(s) : s[k] \in Letters \cup Digits
IsDigit(s) == Len(s) > 0 /\ \A k \in 1..Len(s) : s[k] \in Digits

\* the class \w of the regular expressions: letters, digits and the underscore
IsWordChar(c) == c \in Letters \cup Digits \cup {"_"}

\* str.lower on one character
LowerChar(c) == IF c = "P" THEN "p" ELSE IF c = "M" THEN "m" ELSE c

RECURSIVE FindallFrom(_, _, _)
FindallFrom(s, k, run) ==
    IF k > Len(s)
    THEN IF run = <<>> THEN <<>> ELSE <<run>>
    ELSE IF IsWordChar(s[k])
         THEN FindallFrom(s, k + 1, Append(run, s[k]))
         ELSE (IF run = <<>> THEN <<>> ELSE <<run>>) \o FindallFrom(s, k + 1, <<>>)

\* re.findall(r'\w+', sentence): the maximal runs of word characters, in order
FindallWords(sentence) == FindallFrom(sentence, 1, <<>>)

(***************************************************************************)
(* Tag mapping table and the Mystem converter                              *)
(***************************************************************************)
\* names of the categories (attributes of TagConverter)
CatPos == "POS"
CatCase == "Case"
CatNumber == "Number"
CatGender == "Gender"
CatAnimacy == "Animacy"
CatTense == "Tense"

\* data/mystem_tags_mapping.json: category -> (raw atom -> UD value)
MystemTagMapping ==
    (CatPos :> (("S" :> "NOUN") @@ ("V" :> "VERB") @@ ("A" :> "ADJ"))) @@
    (CatCase :> (("im" :> "Nom") @@ ("rod" :> "Gen"))) @@
    (CatNumber :> (("ed" :> "Sing") @@ ("mn" :> "Plur"))) @@
    (CatGender :> (("muzh" :> "Masc") @@ ("zhen" :> "Fem"))) @@
    (CatAnimacy :> (("neod" :> "Inan") @@ ("od" :> "Anim"))) @@
    (CatTense :> (("prosh" :> "Past") @@ ("nast" :> "Pres")))

\* atoms of a Mystem tag string made of lowercase Cyrillic letters ([a-ya]+)
CyrillicAtoms == {"im", "rod", "ed", "mn", "muzh", "zhen", "neod", "od", "prosh",
                  "nast", "ustar"}
\* atoms made of Latin letters
LatinAtoms == {"S", "V", "A", "ZZ"}
\* the delimiters of a Mystem tag string
TagDelimiters == {",", "="}

\* Python's order of the category names (str comparison by code point)
CategoryOrder == <<CatAnimacy, CatCase, CatGender, CatNumber, CatPos, CatTense>>
StrRank(name) == CHOOSE k \in 1..Len(CategoryOrder) : CategoryOrder[k] = name
StrLess(a, b) == StrRank(a) < StrRank(b)

\* an insertion-ordered dict is a sequence of <<key, value>> pairs
DictHas(d, k) == \E x \in 1..Len(d) : d[x][1] = k
DictSet(d, k, v) ==
    IF DictHas(d, k)
    THEN [x \in 1..Len(d) |-> IF d[x][1] = k THEN <<k, v>> ELSE d[x]]
    ELSE Append(d, <<k, v>>)

RECURSIVE InsertSorted(_, _)
InsertSorted(sorted, item) ==
    IF sorted = <<>> THEN <<item>>
    ELSE IF StrLess(item[1], Head(sorted)[1])
         THEN <<item>> \o sorted
         ELSE <<Head(sorted)>> \o InsertSorted(Tail(sorted), item)

RECURSIVE SortedItems(_)
\* sorted(ud_tags.items()): the pairs in ascending order of the key
SortedItems(d) ==
    IF d = <<>> THEN <<>>
    ELSE InsertSorted(SortedItems(SubSeq(d, 1, Len(d) - 1)), d[Len(d)])

RECURSIVE JoinFeatures(_)
\* '|'.join(f'{k}={v}' for k, v in items)
JoinFeatures(items) ==
    IF items = <<>> THEN <<>>
    ELSE IF Len(items) = 1 THEN <<items[1][1], "=", items[1][2]>>
    ELSE <<items[1][1], "=", items[1][2], "|">> \o JoinFeatures(Tail(items))

\* re.findall(r'[a-ya]+', tags): the runs of lowercase Cyrillic letters
ExtractCyrillic(tags) == SelectSeq(tags, LAMBDA a : a \in CyrillicAtoms)

\* the categories MystemTagConverter looks a tag up in, in the code's order
MystemCategories == <<CatCase, CatNumber, CatGender, CatAnimacy, CatTense>>

RECURSIVE MystemLookup(_, _, _)
\* the inner loop over the categories for one extracted tag
MystemLookup(ud_tags, tag, c) ==
    IF c > Len(MystemCategories) THEN ud_tags
    ELSE LET category == MystemCategories[c]
         IN  IF tag \in DOMAIN MystemTagMapping[category]
             THEN MystemLookup(DictSet(ud_tags, category, MystemTagMapping[category][tag]),
                               tag, c + 1)
             ELSE MystemLookup(ud_tags, tag, c + 1)

RECURSIVE MystemCollect(_, _)
\* the outer loop over the extracted tags
MystemCollect(ud_tags, extracted) ==
    IF extracted = <<>> THEN ud_tags
    ELSE MystemCollect(MystemLookup(ud_tags, Head(extracted), 1), Tail(extracted))

\* MystemTagConverter.convert_morphological_tags
MystemConvertMorphologicalTags(tags) ==
    [ok |-> TRUE,
     value |-> JoinFeatures(SortedItems(MystemCollect(<<>>, ExtractCyrillic(tags))))]

\* MystemTagConverter.convert_pos: re.match(r'\w+', tags)[0], then the POS table
MystemConvertPos(tags) ==
    IF tags = <<>> \/ Head(tags) \in TagDelimiters
    THEN [ok |-> FALSE, error |-> "TypeError"]
    ELSE IF Head(tags) \in DOMAIN MystemTagMapping[CatPos]
         THEN [ok |-> TRUE, value |-> MystemTagMapping[CatPos][Head(tags)]]
         ELSE [ok |-> FALSE, error |-> "KeyError"]

(***************************************************************************)
(* Token and sentence model                                                *)
(***************************************************************************)
\* MorphologicalTokenDTO(lemma, pos, tags)
MorphologicalTokenDTO(lemma, pos, tags) == [lemma |-> lemma, pos |-> pos, tags |-> tags]

\* ConlluToken(text, morphological_parameters, position)
ConlluToken(text, parameters, position) ==
    [text |-> text, lemma |-> parameters.lemma, pos |-> parameters.pos,
     tags |-> parameters.tags, position |-> position]

\* ConlluSentence(position, text, tokens)
ConlluSentence(position, text, toks) ==
    [position |-> position, text |-> text, tokens |-> toks]

\* mutant: the terminal token reuses the position of the last word
TerminalTokenAtLastWord(n) ==
    ConlluToken(<<".">>, MorphologicalTokenDTO(<<".">>, "PUNCT", <<>>), n)

\* the synthetic terminal token of a sentence of n words
TerminalToken(n) == ConlluToken(<<".">>, MorphologicalTokenDTO(<<".">>, "PUNCT", <<>>), n + 1)

(***************************************************************************)
(* MorphologicalAnalysisPipeline._process                                  *)
(***************************************************************************)
\* sentences split_by_sentence can yield: "!", "mir", "mir, 42", "mir _"
SentencePool ==
    { <<"!">>,
      <<"m", "i", "r">>,
      <<"m", "i", "r", ",", " ", "4", "2">>,
      <<"m", "i", "r", " ", "_">> }

NounTag == <<"S", ",", "muzh", ",", "neod", "=", "im", ",", "ed">>
VerbTag == <<"V", ",", "prosh", "=", "ed">>

\* records the analyzer can return
RecWord ==
    [text |-> <<"m", "i", "r">>,
     analysis |-> << [lex |-> <<"m", "i", "r">>, gr |-> NounTag],
                     [lex |-> <<"m", "i", "r", "i", "t">>, gr |-> VerbTag] >>]
RecUnknown == [text |-> <<"q", "w">>, analysis |-> <<>>]
RecNumber == [text |-> <<"4", "2">>]
RecSpace == [text |-> <<" ">>]
RecUnderscore == [text |-> <<"_">>]
RecBadPos == [text |-> <<"i">>, analysis |-> << [lex |-> <<"i">>, gr |-> <<"ZZ">>] >>]
RecordPool == {RecWord, RecUnknown, RecNumber, RecSpace, RecUnderscore, RecBadPos}

Texts == UNION {[1..k -> SentencePool] : k \in 0..MaxSentences}
Streams == UNION {[1..k -> RecordPool] : k \in 0..MaxRecords}

\* lines 267-268: step over one record that is not alphanumeric
SkipSeparator(res, n) ==
    IF n >= Len(res) THEN [ok |-> FALSE, error |-> "IndexError"]
    ELSE IF ~IsAlnum(res[n + 1].text) THEN [ok |-> TRUE, cursor |-> n + 1]
    ELSE [ok |-> TRUE, cursor |-> n]

\* mutant: the last candidate is taken, and digits are not told from unknown words
ResolveAnnotationLastCandidate(analyzed_content) ==
    IF "analysis" \in DOMAIN analyzed_content /\ analyzed_content.analysis # <<>>
    THEN LET last == analyzed_content.analysis[Len(analyzed_content.analysis)]
             pos == MystemConvertPos(last.gr)
             tags == MystemConvertMorphologicalTags(last.gr)
         IN  IF ~pos.ok THEN [ok |-> FALSE, error |-> pos.error]
             ELSE [ok |-> TRUE,
                   dto |-> MorphologicalTokenDTO(last.lex, pos.value, tags.value)]
    ELSE [ok |-> TRUE,
          dto |-> MorphologicalTokenDTO(analyzed_content.text, "X", <<>>)]

\* lines 271-283: lemma, part of speech and features of the consumed record
ResolveAnnotation(analyzed_content) ==
    IF "analysis" \in DOMAIN analyzed_content /\ analyzed_content.analysis # <<>>
    THEN LET lemma == analyzed_content.analysis[1].lex
             morph_tags == analyzed_content.analysis[1].gr
             pos == MystemConvertPos(morph_tags)
             tags == MystemConvertMorphologicalTags(morph_tags)
         IN  IF ~pos.ok THEN [ok |-> FALSE, error |-> pos.error]
             ELSE [ok |-> TRUE,
                   dto |-> MorphologicalTokenDTO(lemma, pos.value, tags.value)]
    ELSE IF IsDigit(analyzed_content.text)
         THEN [ok |-> TRUE,
               dto |-> MorphologicalTokenDTO(analyzed_content.text, "NUM", <<>>)]
         ELSE [ok |-> TRUE,
               dto |-> MorphologicalTokenDTO(analyzed_content.text, "X", <<>>)]

\* lines 267-285: the outcome of one iteration of the loop over the words
WordOutcome(res, n, position) ==
    LET skip == SkipSeparator(res, n)
    IN  IF ~skip.ok THEN skip
        ELSE IF skip.cursor >= Len(res) THEN [ok |-> FALSE, error |-> "IndexError"]
        ELSE LET analyzed_content == res[skip.cursor + 1]
                 resolved == ResolveAnnotation(analyzed_content)
             IN  IF ~resolved.ok THEN resolved
                 ELSE [ok |-> TRUE,
                       token |-> ConlluToken(analyzed_content.text, resolved.dto, position),
                       cursor |-> skip.cursor + 1]

ProcIdle ==
    /\ pc = "idle" /\ sentences = <<>> /\ result = <<>> /\ number_of_word = 0
    /\ ind = 0 /\ words = <<>> /\ i = 0 /\ tokens = <<>>
    /\ conllu_sentences = <<>> /\ error = ""

\* lines 260-262: the analyzer is called once on the whole text
ProcessBegin ==
    /\ pc = "begin"
    /\ \E stream \in Streams : result' = stream
    /\ conllu_sentences' = <<>>
    /\ number_of_word' = 0
    /\ pc' = "for_sentence"
    /\ UNCHANGED <<sentences, ind, words, i, tokens, error>>

\* mutant: the cursor is set to 0 inside the loop over the sentences
NextSentenceResetsCursor ==
    /\ pc = "for_sentence"
    /\ ind < Len(sentences)
    /\ ind' = ind + 1
    /\ tokens' = <<>>
    /\ words' = FindallWords(sentences[ind + 1])
    /\ i' = 0
    /\ number_of_word' = 0
    /\ pc' = "for_word"
    /\ UNCHANGED <<sentences, result, conllu_sentences, error>>

\* mutant: the token list is created once, before the loop over the sentences
NextSentenceKeepsTokens ==
    /\ pc = "for_sentence"
    /\ ind < Len(sentences)
    /\ ind' = ind + 1
    /\ words' = FindallWords(sentences[ind + 1])
    /\ i' = 0
    /\ pc' = "for_word"
    /\ UNCHANGED <<sentences, result, number_of_word, conllu_sentences, error, tokens>>

\* lines 263-265: the next sentence, its words
NextSentence ==
    /\ pc = "for_sentence"
    /\ ind < Len(sentences)
    /\ ind' = ind + 1
    /\ tokens' = <<>>
    /\ words' = FindallWords(sentences[ind + 1])
    /\ i' = 0
    /\ pc' = "for_word"
    /\ UNCHANGED <<sentences, result, number_of_word, conllu_sentences, error>>

\* lines 266-285: one word of the sentence is given a record and becomes a token
ProcessWord ==
    /\ pc = "for_word"
    /\ i < Len(words)
    /\ LET out == WordOutcome(result, number_of_word, i + 1)
       IN  IF out.ok
           THEN /\ tokens' = Append(tokens, out.token)
                /\ number_of_word' = out.cursor
                /\ i' = i + 1
                /\ UNCHANGED <<pc, error>>
           ELSE /\ pc' = "raised"
                /\ error' = out.error
                /\ UNCHANGED <<tokens, number_of_word, i>>
    /\ UNCHANGED <<sentences, result, ind, words, conllu_sentences>>

\* lines 286-292: the terminal token is appended and the sentence stored
EndSentence ==
    /\ pc = "for_word"
    /\ i = Len(words)
    /\ conllu_sentences' =
          Append(conllu_sentences,
                 ConlluSentence(ind, sentences[ind],
                                Append(tokens, TerminalToken(Len(words)))))
    /\ pc' = "for_sentence"
    /\ UNCHANGED <<sentences, result, number_of_word, ind, words, i, tokens, error>>

\* line 294: the sentences are returned
ProcessReturn ==
    /\ pc = "for_sentence"
    /\ ind = Len(sentences)
    /\ pc' = "done"
    /\ UNCHANGED <<sentences, result, number_of_word, ind, words, i, tokens,
                   conllu_sentences, error>>

CmIdle == dataset = "none" /\ cm_pc = "idle" /\ cm_error = "" /\ storage = "None"
CvIdle == cv_in = [variant |-> "none"] /\ cv_out = [state |-> "idle"]
RdOutNone == [cleaned |-> [state |-> "pending"], calls |-> <<>>,
              parsed |-> [state |-> "pending"]]
RdIdle == rd_sentence = [position |-> 0, text |-> <<>>, tokens |-> <<>>] /\ rd_out = RdOutNone

RunIdle == docs = <<>> /\ doc_idx = 0 /\ run_pc = "idle" /\ written = <<>>

Init ==
    /\ pc = "begin"
    /\ sentences \in Texts
    /\ result = <<>> /\ number_of_word = 0 /\ ind = 0 /\ words = <<>> /\ i = 0
    /\ tokens = <<>> /\ conllu_sentences = <<>> /\ error = ""
    /\ CmIdle /\ CvIdle /\ RdIdle /\ RunIdle

Next ==
    \/ ProcessBegin /\ UNCHANGED <<cmVars, cvVars, rdVars, runVars>>
    \/ NextSentence /\ UNCHANGED <<cmVars, cvVars, rdVars, runVars>>
    \/ ProcessWord /\ UNCHANGED <<cmVars, cvVars, rdVars, runVars>>
    \/ EndSentence /\ UNCHANGED <<cmVars, cvVars, rdVars, runVars>>
    \/ ProcessReturn /\ UNCHANGED <<cmVars, cvVars, rdVars, runVars>>

Spec == Init /\ [][Next]_vars

(***************************************************************************)
(* Properties of _process                                                  *)
(***************************************************************************)
IsSynthetic(tok) == tok.text = <<".">> /\ tok.lemma = <<".">> /\ tok.pos = "PUNCT"

NumRealTokens(sentence) ==
    Cardinality({k \in 1..Len(sentence.tokens) : ~IsSynthetic(sentence.tokens[k])})

RECURSIVE SumRealTokens(_)
SumRealTokens(sents) ==
    IF sents = <<>> THEN 0 ELSE NumRealTokens(Head(sents)) + SumRealTokens(Tail(sents))

RECURSIVE SumWords(_)
SumWords(sents) ==
    IF sents = <<>> THEN 0 ELSE Len(FindallWords(Head(sents))) + SumWords(Tail(sents))

HasAnalysis(rec) == "analysis" \in DOMAIN rec /\ rec.analysis # <<>>

\* C1: when _process completes, the real (non-synthetic) tokens of all produced
\* sentences are as many as the runs of word characters of the text's sentences,
\* sentence by sentence: no word is dropped or duplicated.
AlignmentConservation ==
    pc = "done" =>
        /\ SumRealTokens(conllu_sentences) = SumWords(sentences)
        /\ Len(conllu_sentences) = Len(sentences)
        /\ \A s \in 1..Len(sentences) :
              NumRealTokens(conllu_sentences[s]) = Len(FindallWords(sentences[s]))

\* _process completed on two sentences of three words in all
AlignmentConservationWitness ==
    /\ pc = "done"
    /\ Len(sentences) = 2
    /\ SumWords(sentences) = 3
    /\ SumRealTokens(conllu_sentences) = 3

\* C8: the token made from a consumed record takes lemma and tag from the FIRST
\* candidate when the record has a non-empty analysis; otherwise a purely numeric
\* surface gives lemma = surface, NUM, no features; otherwise lemma = surface, X,
\* no features.  A conversion error is raised only for a record with an analysis.
FallbackTiering ==
    [][ /\ (Len(tokens') = Len(tokens) + 1 =>
              LET rec == result[number_of_word']
                  tok == tokens'[Len(tokens')]
              IN  /\ tok.text = rec.text
                  /\ HasAnalysis(rec) =>
                        /\ tok.lemma = rec.analysis[1].lex
                        /\ tok.pos = MystemTagMapping[CatPos][Head(rec.analysis[1].gr)]
                        /\ tok.tags = MystemConvertMorphologicalTags(rec.analysis[1].gr).value
                  /\ (~HasAnalysis(rec) /\ IsDigit(tok.text)) =>
                        tok.lemma = tok.text /\ tok.pos = "NUM" /\ tok.tags = <<>>
                  /\ (~HasAnalysis(rec) /\ ~IsDigit(tok.text)) =>
                        tok.lemma = tok.text /\ tok.pos = "X" /\ tok.tags = <<>>)
        /\ ((error = "" /\ error' \notin {"", "IndexError"}) =>
              LET c == IF IsAlnum(result[number_of_word + 1].text)
                       THEN number_of_word ELSE number_of_word + 1
              IN  HasAnalysis(result[c + 1]))
      ]_vars

\* a completed document with a NUM token, an X token and an analysed token whose
\* lemma is that of the first of two candidates
FallbackTieringWitness ==
    /\ pc = "done"
    /\ \E s \in 1..Len(conllu_sentences) : \E k \in 1..Len(conllu_sentences[s].tokens) :
          LET tok == conllu_sentences[s].tokens[k]
          IN  tok.pos = "NUM" /\ tok.text = <<"4", "2">> /\ tok.lemma = <<"4", "2">>
    /\ \E s \in 1..Len(conllu_sentences) : \E k \in 1..Len(conllu_sentences[s].tokens) :
          LET tok == conllu_sentences[s].tokens[k]
          IN  tok.pos = "X" /\ tok.text = <<"q", "w">> /\ tok.lemma = <<"q", "w">>
    /\ \E s \in 1..Len(conllu_sentences) : \E k \in 1..Len(conllu_sentences[s].tokens) :
          LET tok == conllu_sentences[s].tokens[k]
          IN  tok.pos = "NOUN" /\ tok.lemma = <<"m", "i", "r">>

\* C9: in every produced sentence the token positions are 1..n+1 in order (n the
\* number of words), position 0 is not used, the last token is the only synthetic
\* terminal token ('.', '.', PUNCT), and the sentence positions are 1..m in order.
SentencePositionInvariant ==
    /\ \A s \in 1..Len(conllu_sentences) :
          LET sent == conllu_sentences[s]
              n == Len(FindallWords(sentences[s]))
          IN  /\ sent.position = s
              /\ Len(sent.tokens) = n + 1
              /\ \A k \in 1..Len(sent.tokens) : sent.tokens[k].position = k
              /\ IsSynthetic(sent.tokens[n + 1])
              /\ \A k \in 1..n : ~IsSynthetic(sent.tokens[k])
    /\ \A k \in 1..Len(tokens) : tokens[k].position = k /\ ~IsSynthetic(tokens[k])

\* a completed document of two sentences, one of two words and one without words
SentencePositionWitness ==
    /\ pc = "done"
    /\ Len(conllu_sentences) = 2
    /\ \E s \in 1..2 : Len(conllu_sentences[s].tokens) = 3
    /\ \E s \in 1..2 : Len(conllu_sentences[s].tokens) = 1

\* the real tokens made so far in this call of _process
RealTokensSoFar ==
    << [s \in 1..Len(conllu_sentences) |->
          SubSeq(conllu_sentences[s].tokens, 1, Len(conllu_sentences[s].tokens) - 1)],
       tokens >>

\* C11: before a record is consumed the cursor has passed ALL consecutive records
\* that are not alphanumeric, so the surface text of every real token, which is
\* the text of the record consumed for it, is alphanumeric.
SeparatorSkipping ==
    /\ \A k \in 1..Len(tokens) : IsAlnum(tokens[k].text)
    /\ \A s \in 1..Len(conllu_sentences) :
          \A k \in 1..Len(RealTokensSoFar[1][s]) : IsAlnum(RealTokensSoFar[1][s][k].text)

\* the number of records consumed as the analysis of a word so far
\* (after the end of a sentence its tokens are already in conllu_sentences)
ConsumedCount ==
    SumRealTokens(conllu_sentences)
      + (IF pc \in {"for_sentence", "done"} THEN 0 ELSE Len(tokens))

\* C14: within one call of _process the cursor starts at 0, is not changed at a
\* sentence boundary, never decreases, and grows by at least one with every
\* word, so the records consumed for different words are different records.
CursorMonotonicity ==
    [][ /\ pc = "begin" => number_of_word' = 0
        /\ pc' # "begin" =>
            /\ number_of_word' >= number_of_word
            /\ Len(tokens') = Len(tokens) + 1 =>
                  /\ number_of_word' >= number_of_word + 1
                  /\ \* the consumed record lies at or after the old cursor
                     number_of_word' - 1 >= number_of_word
            /\ (ind' # ind \/ Len(conllu_sentences') # Len(conllu_sentences)) =>
                  number_of_word' = number_of_word
            /\ ConsumedCount' <= number_of_word'
      ]_vars

\* a completed call on two sentences with a word each, one record skipped
CursorMonotonicityWitness ==
    /\ pc = "done"
    /\ Len(sentences) = 2
    /\ \A s \in 1..2 : Len(conllu_sentences[s].tokens) = 2
    /\ number_of_word = 3

(***************************************************************************)
(* MorphologicalAnalysisPipeline.run                                       *)
(***************************************************************************)

\* the raw texts of the articles of a corpus
DocPool ==
    { << <<"m", "i", "r">> >>,
      << <<"m", "i", "r", ",", " ", "4", "2">> >>,
      << <<"m", "i", "r">>, <<"m", "i", "r">> >> }

Corpora == UNION {[1..k -> DocPool] : k \in 1..MaxDocs}

\* the files written for one article, in the order of lines 303-305
Kinds == <<"cleaned", "conllu", "morphological_conllu">>

Artifact(doc, kind) == [doc |-> doc, artifact |-> kind]

\* lines 300-302: the next article is loaded and _process is called on its text
RunNextDoc ==
    /\ run_pc = "loop"
    /\ doc_idx < Len(docs)
    /\ doc_idx' = doc_idx + 1
    /\ sentences' = docs[doc_idx + 1]
    /\ result' = <<>> /\ number_of_word' = 0 /\ ind' = 0 /\ words' = <<>> /\ i' = 0
    /\ tokens' = <<>> /\ conllu_sentences' = <<>> /\ error' = ""
    /\ pc' = "begin"
    /\ run_pc' = "process"
    /\ UNCHANGED <<docs, written>>

\* mutant: an error of _process is swallowed and the article is written anyway
RunToCleanedSwallowsError ==
    /\ run_pc = "process"
    /\ pc \in {"done", "raised"}
    /\ written' = Append(written, Artifact(doc_idx, Kinds[1]))
    /\ run_pc' = "to_conllu"
    /\ UNCHANGED <<docs, doc_idx, procVars>>

\* lines 302-303: _process returned, the sentences are set and the cleaned text
\* is written
RunToCleaned ==
    /\ run_pc = "process"
    /\ pc = "done"
    /\ written' = Append(written, Artifact(doc_idx, Kinds[1]))
    /\ run_pc' = "to_conllu"
    /\ UNCHANGED <<docs, doc_idx, procVars>>

\* line 304: the table without the features is written
RunToConllu ==
    /\ run_pc = "to_conllu"
    /\ written' = Append(written, Artifact(doc_idx, Kinds[2]))
    /\ run_pc' = "to_morphological_conllu"
    /\ UNCHANGED <<docs, doc_idx, procVars>>

\* line 305: the table with the features is written, the loop goes on
RunToMorphologicalConllu ==
    /\ run_pc = "to_morphological_conllu"
    /\ written' = Append(written, Artifact(doc_idx, Kinds[3]))
    /\ run_pc' = "loop"
    /\ UNCHANGED <<docs, doc_idx, procVars>>

\* line 302: an exception of _process is not caught, it leaves the loop and run
RunRaise ==
    /\ run_pc = "process"
    /\ pc = "raised"
    /\ run_pc' = "raised"
    /\ UNCHANGED <<docs, doc_idx, written, procVars>>

\* line 300: the articles are exhausted, run returns
RunEnd ==
    /\ run_pc = "loop"
    /\ doc_idx = Len(docs)
    /\ run_pc' = "done"
    /\ UNCHANGED <<docs, doc_idx, written, procVars>>

InitRun ==
    /\ docs \in Corpora
    /\ doc_idx = 0 /\ run_pc = "loop" /\ written = <<>>
    /\ pc = "idle" /\ sentences = <<>>
    /\ result = <<>> /\ number_of_word = 0 /\ ind = 0 /\ words = <<>> /\ i = 0
    /\ tokens = <<>> /\ conllu_sentences = <<>> /\ error = ""
    /\ CmIdle /\ CvIdle /\ RdIdle

NextRun ==
    \/ RunNextDoc /\ UNCHANGED <<cmVars, cvVars, rdVars>>
    \/ ProcessBegin /\ run_pc = "process" /\ UNCHANGED <<cmVars, cvVars, rdVars, runVars>>
    \/ NextSentence /\ run_pc = "process" /\ UNCHANGED <<cmVars, cvVars, rdVars, runVars>>
    \/ ProcessWord /\ run_pc = "process" /\ UNCHANGED <<cmVars, cvVars, rdVars, runVars>>
    \/ EndSentence /\ run_pc = "process" /\ UNCHANGED <<cmVars, cvVars, rdVars, runVars>>
    \/ ProcessReturn /\ run_pc = "process" /\ UNCHANGED <<cmVars, cvVars, rdVars, runVars>>
    \/ RunToCleaned /\ UNCHANGED <<cmVars, cvVars, rdVars>>
    \/ RunToConllu /\ UNCHANGED <<cmVars, cvVars, rdVars>>
    \/ RunToMorphologicalConllu /\ UNCHANGED <<cmVars, cvVars, rdVars>>
    \/ RunRaise /\ UNCHANGED <<cmVars, cvVars, rdVars>>
    \/ RunEnd /\ UNCHANGED <<cmVars, cvVars, rdVars>>

SpecRun == InitRun /\ [][NextRun]_vars

\* the articles whose three files have all been written
FullyWritten ==
    {d \in 1..Len(docs) :
        \A k \in 1..3 : \E n \in 1..Len(written) : written[n] = Artifact(d, Kinds[k])}

\* C12: when the alignment of one article fails on an exhausted record stream,
\* only that article is lost: at the end of run every other article of the
\* corpus has been processed and its three files are written.
FailureIsolation ==
    /\ run_pc = "done" => FullyWritten = 1..Len(docs)
    /\ run_pc = "raised" => FullyWritten = (1..Len(docs)) \ {doc_idx}

\* the record stream ends before a record can be consumed for the next word
StreamExhausted ==
    \/ number_of_word >= Len(result)
    \/ /\ ~IsAlnum(result[number_of_word + 1].text)
       /\ number_of_word + 1 >= Len(result)

\* C13: when the cursor reaches the end of the record stream while a word is
\* still unprocessed, _process ends in an IndexError and never returns a
\* shortened list; no file of that article is written; a file of an article is
\* written only after _process returned for it, and the three files of an
\* article are written, in order, before the next article starts.
NoPartialOutput ==
    /\ [](/\ pc = "done" =>
               /\ Len(conllu_sentences) = Len(sentences)
               /\ \A s \in 1..Len(sentences) :
                     Len(conllu_sentences[s].tokens)
                        = Len(FindallWords(sentences[s])) + 1
          /\ \A n \in 1..Len(written) :
               written[n] = Artifact(((n - 1) \div 3) + 1, Kinds[((n - 1) % 3) + 1])
          /\ run_pc \in {"process", "raised"} => Len(written) = 3 * (doc_idx - 1)
          /\ run_pc \in {"loop", "done"} => Len(written) = 3 * doc_idx)
    /\ [][ /\ (pc = "for_word" /\ i < Len(words) /\ StreamExhausted) =>
                (pc' = "raised" /\ error' = "IndexError" /\ written' = written)
           /\ written' # written =>
                (pc = "done" /\ Len(written') = Len(written) + 1
                   /\ written'[Len(written')].doc = doc_idx)
           /\ doc_idx' # doc_idx => Len(written) = 3 * doc_idx
         ]_vars

\* the first article is written completely, the second fails on its stream
NoPartialOutputWitness ==
    /\ run_pc = "raised"
    /\ error = "IndexError"
    /\ doc_idx = 2
    /\ written = <<Artifact(1, Kinds[1]), Artifact(1, Kinds[2]), Artifact(1, Kinds[3])>>

(***************************************************************************)
(* CorpusManager                                                           *)
(***************************************************************************)
\* the part of a file name before the first "_": "1", "2", "5", "05"
PrefixPool == { <<"1">>, <<"2">>, <<"5">>, <<"0", "5">> }
\* st_size of a raw-text file
FileSizes == {0, 7}

DigitValue(c) ==
    CASE c = "0" -> 0 [] c = "1" -> 1 [] c = "2" -> 2 [] c = "3" -> 3 [] c = "4" -> 4
      [] c = "5" -> 5 [] c = "6" -> 6 [] c = "7" -> 7 [] c = "8" -> 8 [] c = "9" -> 9

RECURSIVE IntOf(_)
\* int(file.name.split("_")[0])
IntOf(prefix) ==
    IF prefix = <<>> THEN 0
    ELSE 10 * IntOf(SubSeq(prefix, 1, Len(prefix) - 1)) + DigitValue(prefix[Len(prefix)])

\* the states of path_to_raw_txt_data: absent, a plain file, or a directory holding
\* raw-text files (prefix, size) and metadata files (prefix)
Directories ==
    { [exists |-> TRUE, is_dir |-> TRUE,
       raw |-> {[prefix |-> q, size |-> f[q]] : q \in DOMAIN f}, meta |-> ms] :
         f \in UNION {[ps -> FileSizes] : ps \in SUBSET PrefixPool},
         ms \in SUBSET PrefixPool }
Datasets ==
    Directories \cup
    { [exists |-> FALSE, is_dir |-> FALSE, raw |-> {}, meta |-> {}],
      [exists |-> TRUE, is_dir |-> FALSE, raw |-> {}, meta |-> {}] }

ErrCount == "InconsistentDatasetError: Number of meta and raw files are not equal"
ErrEmptyDir == "EmptyDirectoryError: The directory is empty"
ErrDuplicates == "InconsistentDatasetError: IDs contain duplicates"
ErrEmptyFiles == "InconsistentDatasetError: Files are empty"

\* file_ids of line 63, as a set
FileIds(raw_files) == {IntOf(file.prefix) : file \in raw_files}

\* mutant: the emptiness of the directory is checked before the counts
ValidateDatasetEmptyFirst(d) ==
    IF ~d.exists THEN "FileNotFoundError"
    ELSE IF ~d.is_dir THEN "NotADirectoryError"
    ELSE IF d.meta = {} \/ d.raw = {} THEN ErrEmptyDir
    ELSE IF Cardinality(d.meta) # Cardinality(d.raw) THEN ErrCount
    ELSE IF Cardinality(d.raw) # Cardinality(FileIds(d.raw)) THEN ErrDuplicates
    ELSE IF {file \in d.raw : file.size = 0} # {} THEN ErrEmptyFiles
    ELSE ""

\* CorpusManager._validate_dataset: the condition raised, "" when none is
ValidateDataset(d) ==
    IF ~d.exists THEN "FileNotFoundError"
    ELSE IF ~d.is_dir THEN "NotADirectoryError"
    ELSE LET meta_files == d.meta
             raw_files == d.raw
         IN  IF Cardinality(meta_files) # Cardinality(raw_files) THEN ErrCount
             ELSE IF meta_files = {} \/ raw_files = {} THEN ErrEmptyDir
             ELSE IF Cardinality(raw_files) # Cardinality(FileIds(raw_files))
                  THEN ErrDuplicates
             ELSE IF {file \in raw_files : file.size = 0} # {} THEN ErrEmptyFiles
             ELSE ""

\* CorpusManager._scan_dataset: every raw-text file is read and stored under its id
ScanDataset(d) ==
    [file_id \in FileIds(d.raw) |->
        CHOOSE file \in d.raw : IntOf(file.prefix) = file_id]

\* lines 39-40: the path is stored and the dataset validated
CmValidate ==
    /\ cm_pc = "new"
    /\ cm_error' = ValidateDataset(dataset)
    /\ cm_pc' = IF ValidateDataset(dataset) = "" THEN "validated" ELSE "raised"
    /\ UNCHANGED <<dataset, storage>>

\* lines 41-42: the storage is created and filled
CmScan ==
    /\ cm_pc = "validated"
    /\ storage' = ScanDataset(dataset)
    /\ cm_pc' = "constructed"
    /\ UNCHANGED <<dataset, cm_error>>

InitCorpus ==
    /\ dataset \in Datasets
    /\ cm_pc = "new" /\ cm_error = "" /\ storage = "None"
    /\ ProcIdle /\ CvIdle /\ RdIdle /\ RunIdle

NextCorpus ==
    \/ CmValidate /\ UNCHANGED <<procVars, cvVars, rdVars, runVars>>
    \/ CmScan /\ UNCHANGED <<procVars, cvVars, rdVars, runVars>>

SpecCorpus == InitCorpus /\ [][NextCorpus]_vars

MetaIds(d) == {IntOf(q) : q \in d.meta}

\* C3: a CorpusManager is constructed only on a directory whose raw-text ids and
\* metadata ids are the same set, without duplicates.
CorpusIdInvariant ==
    cm_pc = "constructed" =>
        /\ FileIds(dataset.raw) = MetaIds(dataset)
        /\ Cardinality(FileIds(dataset.raw)) = Cardinality(dataset.raw)
        /\ Cardinality(MetaIds(dataset)) = Cardinality(dataset.meta)

OpenCorporaTagMapping ==
    (CatPos :> (("NOUN" :> "NOUN") @@ ("INFN" :> "VERB"))) @@
    (CatCase :> (("nomn" :> "Nom") @@ ("gent" :> "Gen"))) @@
    (CatNumber :> (("sing" :> "Sing") @@ ("plur" :> "Plur"))) @@
    (CatGender :> (("masc" :> "Masc") @@ ("femn" :> "Fem"))) @@
    (CatAnimacy :> (("anim" :> "Anim") @@ ("inan" :> "Inan")))

RECURSIVE OpenCorporaCollect(_, _)
\* lines 236-239: the loop over [category, value]; an unmapped value is a KeyError
OpenCorporaCollect(ud_tags, lst) ==
    IF lst = <<>> THEN [ok |-> TRUE, ud_tags |-> ud_tags]
    ELSE LET k == Head(lst)[1]
             v == Head(lst)[2]
         IN  IF v # "None"
             THEN IF v \in DOMAIN OpenCorporaTagMapping[k]
                  THEN OpenCorporaCollect(DictSet(ud_tags, k, OpenCorporaTagMapping[k][v]),
                                          Tail(lst))
                  ELSE [ok |-> FALSE, error |-> "KeyError"]
             ELSE OpenCorporaCollect(ud_tags, Tail(lst))

\* OpenCorporaTagConverter.convert_morphological_tags
OpenCorporaConvertMorphologicalTags(tags) ==
    LET lst == << <<CatGender, tags.gender>>, <<CatNumber, tags.number>>,
                  <<CatAnimacy, tags.animacy>>, <<CatCase, tags.case>> >>
        collected == OpenCorporaCollect(<<>>, lst)
    IN  IF collected.ok
        THEN [ok |-> TRUE, value |-> JoinFeatures(collected.ud_tags)]
        ELSE collected

RECURSIVE JoinAtoms(_)
\* a Mystem tag string: the atoms after the part of speech, comma-separated
JoinAtoms(atoms) ==
    IF atoms = <<>> THEN <<>> ELSE <<",", Head(atoms)>> \o JoinAtoms(Tail(atoms))

\* feature atoms of Mystem tags; "ustar" has no entry in the table
MystemAtomPool == {"im", "ed", "muzh", "neod", "prosh", "ustar"}
MystemTags ==
    { <<"S">> \o JoinAtoms(atoms) :
        atoms \in UNION {[1..k -> MystemAtomPool] : k \in 0..MaxTagAtoms} }

\* OpenCorpora tag objects; the case "loc2" has no entry in the table
OpenCorporaTags ==
    [POS : {"NOUN"}, gender : {"None", "masc", "femn"}, number : {"None", "sing", "plur"},
     animacy : {"None", "anim", "inan"}, case : {"None", "nomn", "gent", "loc2"}]

Outcome(res) ==
    IF res.ok THEN [state |-> "returned", value |-> res.value]
    ELSE [state |-> "raised", error |-> res.error]

\* a call of MystemTagConverter.convert_morphological_tags
ConvertMystem ==
    /\ cv_in.variant = "Mystem" /\ cv_out.state = "pending"
    /\ cv_out' = Outcome(MystemConvertMorphologicalTags(cv_in.tags))
    /\ UNCHANGED cv_in

\* a call of OpenCorporaTagConverter.convert_morphological_tags
ConvertOpenCorpora ==
    /\ cv_in.variant = "OpenCorpora" /\ cv_out.state = "pending"
    /\ cv_out' = Outcome(OpenCorporaConvertMorphologicalTags(cv_in.tag))
    /\ UNCHANGED cv_in

InitConvert ==
    /\ cv_in \in {[variant |-> "Mystem", tags |-> t] : t \in MystemTags}
                \cup {[variant |-> "OpenCorpora", tag |-> t] : t \in OpenCorporaTags}
    /\ cv_out = [state |-> "pending"]
    /\ ProcIdle /\ CmIdle /\ RdIdle /\ RunIdle

NextConvert ==
    \/ ConvertMystem /\ UNCHANGED <<procVars, cmVars, rdVars, runVars>>
    \/ ConvertOpenCorpora /\ UNCHANGED <<procVars, cmVars, rdVars, runVars>>

SpecConvert == InitConvert /\ [][NextConvert]_vars

\* the raw values of a tag and the table of its converter
RawValues(in) ==
    IF in.variant = "Mystem" THEN {in.tags[k] : k \in 1..Len(in.tags)}
    ELSE {in.tag.gender, in.tag.number, in.tag.animacy, in.tag.case} \ {"None"}
TableOf(in) == IF in.variant = "Mystem" THEN MystemTagMapping ELSE OpenCorporaTagMapping
FeatureCategories == {CatCase, CatNumber, CatGender, CatAnimacy, CatTense}

\* the Category=Value pairs of a feature string, in order
PairsOf(value) == [j \in 1..((Len(value) + 1) \div 4) |-> <<value[4 * j - 3], value[4 * j - 1]>>]

\* C5: for both converters the returned feature string lists its Category=Value
\* pairs, joined by '|', in ascending order of the category name.
FeatureOrdering ==
    cv_out.state = "returned" =>
        LET pairs == PairsOf(cv_out.value)
        IN  /\ \A j \in 1..Len(pairs) - 1 : StrLess(pairs[j][1], pairs[j + 1][1])
            /\ \A j \in 1..Len(pairs) - 1 : cv_out.value[4 * j] = "|"
            /\ \A j \in 1..Len(pairs) : cv_out.value[4 * j - 2] = "="

\* C6: for both converters a raw value without an entry in the table is left out:
\* no call raises, and every mapped category of the tag is in the output.
BestEffortLookup ==
    /\ cv_out.state # "raised"
    /\ cv_out.state = "returned" =>
          LET pairs == PairsOf(cv_out.value)
          IN  \A c \in FeatureCategories \cap DOMAIN TableOf(cv_in) :
                (\E v \in RawValues(cv_in) : v \in DOMAIN TableOf(cv_in)[c])
                    <=> (\E j \in 1..Len(pairs) : pairs[j][1] = c)

(***************************************************************************)
(* Serializer: ConlluToken and ConlluSentence renderers                    *)
(***************************************************************************)
DigitChar(n) ==
    CASE n = 0 -> "0" [] n = 1 -> "1" [] n = 2 -> "2" [] n = 3 -> "3" [] n = 4 -> "4"
      [] n = 5 -> "5" [] n = 6 -> "6" [] n = 7 -> "7" [] n = 8 -> "8" [] n = 9 -> "9"

RECURSIVE IntToStr(_)
\* str(self._position) of a non-negative integer
IntToStr(n) ==
    IF n < 10 THEN <<DigitChar(n)>> ELSE IntToStr(n \div 10) \o <<DigitChar(n % 10)>>

RECURSIVE Join(_, _)
\* sep.join(parts)
Join(sep, parts) ==
    IF parts = <<>> THEN <<>>
    ELSE IF Len(parts) = 1 THEN parts[1]
    ELSE parts[1] \o <<sep>> \o Join(sep, Tail(parts))

\* s.split(sep): the pieces between the occurrences of sep, empty ones included
Split(s, sep) ==
    LET at == {k \in 1..Len(s) : s[k] = sep}
        nth(j) == CHOOSE q \in at : Cardinality({r \in at : r < q}) = j - 1
        first(j) == IF j = 1 THEN 1 ELSE nth(j - 1) + 1
        last(j) == IF j = Cardinality(at) + 1 THEN Len(s) ELSE nth(j) - 1
    IN  [j \in 1..(Cardinality(at) + 1) |-> SubSeq(s, first(j), last(j))]

\* mutant: the features are written whether or not they are asked for
TokenConlluTextAlwaysTags(token, include_morphological_tags) ==
    Join("\t", << IntToStr(token.position), token.text, token.lemma, <<token.pos>>,
                  <<"_">>, IF token.tags # <<>> THEN token.tags ELSE <<"_">>,
                  <<"0">>, <<"root">>, <<"_">>, <<"_">> >>)

\* ConlluToken.get_conllu_text
TokenConlluText(token, include_morphological_tags) ==
    LET position == IntToStr(token.position)
        text == token.text
        lemma == token.lemma
        pos == <<token.pos>>
        xpos == <<"_">>
        feats == IF include_morphological_tags
                 THEN (IF token.tags # <<>> THEN token.tags ELSE <<"_">>)
                 ELSE <<"_">>
        head == <<"0">>
        deprel == <<"root">>
        deps == <<"_">>
        misc == <<"_">>
    IN  Join("\t", <<position, text, lemma, pos, xpos, feats, head, deprel, deps, misc>>)

\* ConlluToken.get_cleaned: re.sub(r'\W+', '', text).lower()
TokenCleaned(token) ==
    LET kept == SelectSeq(token.text, IsWordChar)
    IN  [k \in 1..Len(kept) |-> LowerChar(kept[k])]

RECURSIVE FormatTokenLines(_, _)
\* lines 167-168: every token's line, each ended by a line break
FormatTokenLines(toks, include_morphological_tags) ==
    IF toks = <<>> THEN <<>>
    ELSE TokenConlluText(Head(toks), include_morphological_tags) \o <<"\n">>
         \o FormatTokenLines(Tail(toks), include_morphological_tags)

\* ConlluSentence._format_tokens / get_conllu_text
SentenceConlluText(sentence, include_morphological_tags) ==
    <<"# sent_id = ">> \o IntToStr(sentence.position) \o <<"\n", "# text = ">>
    \o sentence.text \o <<"\n">>
    \o FormatTokenLines(sentence.tokens, include_morphological_tags)

\* ConlluSentence.get_cleaned_sentence
SentenceCleaned(sentence) ==
    Join(" ", [k \in 1..Len(sentence.tokens) |-> TokenCleaned(sentence.tokens[k])])

\* tokens a sentence can hold (text, annotation), before their positions are set
TokenPool ==
    { [text |-> <<"P", "r", "i", "v", "e", "t", ",">>,
       dto |-> MorphologicalTokenDTO(<<"p", "r", "i", "v", "e", "t">>, "NOUN",
                                     <<"Case", "=", "Nom", "|", "Number", "=", "Sing">>)],
      [text |-> <<"m", "i", "r">>,
       dto |-> MorphologicalTokenDTO(<<"m", "i", "r">>, "NOUN", <<>>)],
      [text |-> <<"!">>, dto |-> MorphologicalTokenDTO(<<"!">>, "PUNCT", <<>>)],
      [text |-> <<".">>, dto |-> MorphologicalTokenDTO(<<".">>, "PUNCT", <<>>)] }

RenderSentences ==
    { ConlluSentence(1, <<"P", "r", "i", "v", "e", "t", ",", " ", "m", "i", "r", "!">>,
                     [k \in 1..Len(ts) |-> ConlluToken(ts[k].text, ts[k].dto, k)]) :
        ts \in UNION {[1..n -> TokenPool] : n \in 0..MaxTokens} }

(***************************************************************************)
(* pos_frequency_pipeline: from_conllu and _parse_conllu_token             *)
(***************************************************************************)
\* the parameters of ConlluToken.__init__ after self, none with a default
ConlluTokenInitParams == <<"text", "morphological_parameters", "position">>
\* the methods ConlluToken defines
ConlluTokenMethods ==
    {"set_morphological_parameters", "get_morphological_parameters",
     "get_conllu_text", "get_cleaned"}

\* a call ConlluToken(*args): the arguments must match the parameters
NewConlluToken(args) ==
    IF Len(args) # Len(ConlluTokenInitParams)
    THEN [ok |-> FALSE, error |-> "TypeError"]
    ELSE [ok |-> TRUE, token |-> ConlluToken(args[1], args[2], args[3])]

\* _parse_conllu_token
ParseConlluToken(token_line) ==
    LET fields == Split(token_line, "\t")
    IN  IF Len(fields) < 6 THEN [ok |-> FALSE, error |-> "ValueError"]
        ELSE LET position == fields[1]
                 text == fields[2]
                 lemma == fields[3]
                 pos == fields[4]
                 feats == fields[6]
                 conllu_token == NewConlluToken(<<text>>)
             IN  IF ~conllu_token.ok THEN conllu_token
                 ELSE IF "set_position" \notin ConlluTokenMethods
                      THEN [ok |-> FALSE, error |-> "AttributeError"]
                 ELSE [ok |-> TRUE,
                       token |-> [conllu_token.token EXCEPT
                                    !.lemma = lemma, !.pos = pos[1],
                                    !.tags = IF feats # <<"_">> THEN feats ELSE <<>>,
                                    !.position = position]]

\* extract_sentences_from_raw_conllu, for the text of one sentence: the id and the
\* text of the two comment lines, and the token lines
ExtractSentence(file) ==
    LET lines == Split(file, "\n")
    IN  [position |-> Tail(lines[1]),
         text |-> Tail(lines[2]),
         tokens |-> SelectSeq(SubSeq(lines, 3, Len(lines)), LAMBDA l : l # <<>>)]

\* from_conllu, on the text of the file
FromConllu(file) ==
    IF file = <<>> THEN [ok |-> FALSE, error |-> "EmptyFileError"]
    ELSE LET sent == ExtractSentence(file)
             parsed == [k \in 1..Len(sent.tokens) |-> ParseConlluToken(sent.tokens[k])]
         IN  IF \E k \in 1..Len(parsed) : ~parsed[k].ok
             THEN [ok |-> FALSE,
                   error |-> parsed[CHOOSE k \in 1..Len(parsed) :
                                      ~parsed[k].ok /\ \A j \in 1..(k - 1) : parsed[j].ok].error]
             ELSE [ok |-> TRUE,
                   value |-> ConlluSentence(sent.position, sent.text,
                                            [k \in 1..Len(parsed) |-> parsed[k].token])]

\* a call of ConlluSentence.get_cleaned_sentence
RenderCleaned ==
    /\ rd_out.cleaned.state = "pending"
    /\ rd_sentence.position > 0
    /\ rd_out' = [rd_out EXCEPT
                    !.cleaned = [state |-> "returned", value |-> SentenceCleaned(rd_sentence)]]
    /\ UNCHANGED rd_sentence

\* a call of ConlluSentence.get_conllu_text
RenderConllu ==
    /\ Len(rd_out.calls) < MaxCalls
    /\ rd_sentence.position > 0
    /\ \E include_morphological_tags \in BOOLEAN :
          rd_out' = [rd_out EXCEPT
                       !.calls = Append(@,
                          [include |-> include_morphological_tags,
                           text |-> SentenceConlluText(rd_sentence,
                                                       include_morphological_tags)])]
    /\ UNCHANGED rd_sentence

\* from_conllu on the text rendered last
ParseConllu ==
    /\ rd_out.parsed.state = "pending"
    /\ rd_out.calls # <<>>
    /\ rd_out' = [rd_out EXCEPT
                    !.parsed = Outcome(FromConllu(rd_out.calls[Len(rd_out.calls)].text))]
    /\ UNCHANGED rd_sentence

InitRender ==
    /\ rd_sentence \in RenderSentences
    /\ rd_out = RdOutNone
    /\ ProcIdle /\ CmIdle /\ CvIdle /\ RunIdle

NextRender ==
    \/ RenderCleaned /\ UNCHANGED <<procVars, cmVars, cvVars, runVars>>
    \/ RenderConllu /\ UNCHANGED <<procVars, cmVars, cvVars, runVars>>
    \/ ParseConllu /\ UNCHANGED <<procVars, cmVars, cvVars, runVars>>

SpecRender == InitRender /\ [][NextRender]_vars

\* the cleaned texts of the tokens that are not empty after stripping
NonEmptyCleaned(sentence) ==
    SelectSeq([k \in 1..Len(sentence.tokens) |-> TokenCleaned(sentence.tokens[k])],
              LAMBDA c : c # <<>>)

\* C2: get_cleaned_sentence returns the cleaned texts of the tokens that stay
\* non-empty, joined by one space: no leading, trailing or doubled space, and
\* "Privet,", "mir", "!" give "privet mir".
CleanedTextRenderer ==
    rd_out.cleaned.state = "returned" =>
        LET text == rd_out.cleaned.value
        IN  /\ text = Join(" ", NonEmptyCleaned(rd_sentence))
            /\ text # <<>> => text[1] # " " /\ text[Len(text)] # " "
            /\ \A k \in 1..Len(text) - 1 : ~(text[k] = " " /\ text[k + 1] = " ")
            /\ [k \in 1..Len(rd_sentence.tokens) |-> rd_sentence.tokens[k].text]
                  = << <<"P", "r", "i", "v", "e", "t", ",">>, <<"m", "i", "r">>, <<"!">> >>
               => text = <<"p", "r", "i", "v", "e", "t", " ", "m", "i", "r">>

\* C7: parsing a rendered sentence back succeeds and gives, token for token, the
\* original position, surface text, lemma and part of speech.
RoundTrip ==
    rd_out.parsed.state # "pending" =>
        /\ rd_out.parsed.state = "returned"
        /\ LET back == rd_out.parsed.value.tokens
               orig == rd_sentence.tokens
           IN  /\ Len(back) = Len(orig)
               /\ \A k \in 1..Len(orig) :
                     /\ back[k].position = IntToStr(orig[k].position)
                     /\ back[k].text = orig[k].text
                     /\ back[k].lemma = orig[k].lemma
                     /\ back[k].pos = orig[k].pos

\* the columns of the token lines of a rendered sentence
TokenColumns(text) ==
    LET lines == Split(text, "\n")
    IN  [k \in 1..(Len(lines) - 3) |-> Split(lines[k + 2], "\t")]

\* C10: every token line of get_conllu_text has the 10 tab-joined columns position,
\* surface, lemma, part of speech, "_", features, "0", "root", "_", "_"; the
\* features column is "_" without include_morphological_tags, else the stored
\* features or "_" when they are empty; calls with the same flag return the same
\* text and no call changes the sentence.
TabularRenderer ==
    [][ /\ rd_sentence' = rd_sentence
        /\ SubSeq(rd_out'.calls, 1, Len(rd_out.calls)) = rd_out.calls
        /\ Len(rd_out'.calls) = Len(rd_out.calls) + 1 =>
              LET call == rd_out'.calls[Len(rd_out'.calls)]
                  columns == TokenColumns(call.text)
              IN  /\ Len(columns) = Len(rd_sentence.tokens)
                  /\ \A k \in 1..Len(columns) :
                        LET token == rd_sentence.tokens[k]
                        IN  /\ Len(columns[k]) = 10
                            /\ IntOf(columns[k][1]) = token.position
                            /\ columns[k][2] = token.text
                            /\ columns[k][3] = token.lemma
                            /\ columns[k][4] = <<token.pos>>
                            /\ columns[k][5] = <<"_">>
                            /\ columns[k][6] =
                                  IF call.include /\ token.tags # <<>>
                                  THEN token.tags ELSE <<"_">>
                            /\ SubSeq(columns[k], 7, 10)
                                  = << <<"0">>, <<"root">>, <<"_">>, <<"_">> >>
                  /\ \A b \in 1..Len(rd_out.calls) :
                        rd_out.calls[b].include = call.include
                            => rd_out.calls[b].text = call.text
      ]_vars

\* a sentence with stored features was rendered without them and then with them
TabularRendererWitness ==
    /\ Len(rd_out.calls) = 2
    /\ ~rd_out.calls[1].include /\ rd_out.calls[2].include
    /\ Len(rd_sentence.tokens) = 3
    /\ \E k \in 1..3 : rd_sentence.tokens[k].tags # <<>>
    /\ \E k \in 1..3 : rd_sentence.tokens[k].tags = <<>>
    /\ rd_out.calls[1].text # rd_out.calls[2].text

====
